---- MODULE Spec2Model ----
(***************************************************************************)
(* Model of src/aiforge/utils/manage_docker_services.py: the               *)
(* DockerServiceManager methods and main(), one step per external command. *)
(* Outcomes of external commands:                                          *)
(*   "ok"       the command ran and exited with code 0                     *)
(*   "fail"     the command ran and exited with a non-zero code            *)
(*   "notfound" subprocess raised FileNotFoundError (no such executable)   *)
(* Ctrl-C (KeyboardInterrupt) may arrive at any step of a running action.  *)
(***************************************************************************)
EXTENDS Integers, Sequences, FiniteSets, TLC

VARIABLES
    pc,               \* position in main() / the running method
    op,               \* args.action
    devArg,           \* args.dev
    dev_mode,         \* start_services' local dev_mode (may be downgraded)
    world,            \* what the six environment checks would report
    checks,           \* the mapping built by check_docker_environment
    cmds,             \* external commands invoked so far, in order
    buildRet,         \* value returned by build_images_if_needed
    hidx,             \* index of the next service in _check_service_health
    yamlAvail,        \* whether `import yaml` succeeds
    settings,         \* searxng/settings.yml as parsed by yaml.safe_load
    settingsBefore,   \* the file before the last reconciliation
    writeOk,          \* whether the last reconciliation could write the file
    searxRet,         \* value returned by _check_and_update_searxng_formats
    searxRuns,        \* number of reconciliations performed
    line,             \* last line of `docker images` output scanned
    lineRepo,         \* the {{.Repository}} of that line
    lineId,           \* the {{.ID}} of that line
    marked,           \* whether the last scanned line's id was appended
    nScanned,         \* number of lines scanned
    images_to_remove, \* _remove_aiforge_built_images_only's list
    rmiIdx,           \* index of the next image to remove
    ret,              \* value returned by the action's method
    exc,              \* exception that propagated to main()
    exitCode,         \* argument of sys.exit
    run,              \* 1: first call, 2: replayed call of start_services
    first             \* result of the first call, kept for the replay

vars == << pc, op, devArg, dev_mode, world, checks, cmds, buildRet, hidx,
           yamlAvail, settings, settingsBefore, writeOk, searxRet, searxRuns,
           line, lineRepo, lineId, marked, nScanned, images_to_remove, rmiIdx,
           ret, exc, exitCode, run, first >>

(***************************************************************************)
(* Bounds                                                                  *)
(***************************************************************************)
\* longest search.formats list drawn for the reconciliation
MaxFormats == 4
\* most reconciliations run in a row on the same file
MaxSearxRuns == 2
\* most name fragments concatenated into one repository name
MaxFrags == 2
\* most lines of image listing scanned
MaxLines == 2

(***************************************************************************)
(* Strings as sequences of characters (python str operations)              *)
(***************************************************************************)
UpperChars == << "A","B","C","D","E","F","G","H","I","J","K","L","M",
                 "N","O","P","Q","R","S","T","U","V","W","X","Y","Z" >>
LowerChars == << "a","b","c","d","e","f","g","h","i","j","k","l","m",
                 "n","o","p","q","r","s","t","u","v","w","x","y","z" >>

\* str.lower(), one character
LowerChar(c) ==
    IF \E i \in 1..26 : UpperChars[i] = c
    THEN LowerChars[CHOOSE i \in 1..26 : UpperChars[i] = c]
    ELSE c

\* str.lower()
Lower(s) == [i \in 1..Len(s) |-> LowerChar(s[i])]

\* `sub in s`
Contains(s, sub) ==
    \E i \in 0..(Len(s) - Len(sub)) : SubSeq(s, i + 1, i + Len(sub)) = sub

\* `c in s` for a single character c
HasChar(s, c) == \E i \in 1..Len(s) : s[i] = c

\* index of the first occurrence of c in s (s contains c)
FirstIndex(s, c) == CHOOSE i \in 1..Len(s) : s[i] = c /\ \A j \in 1..(i - 1) : s[j] # c

\* s.split(c)[0] and s.split(c, 1)[0]
BeforeFirst(s, c) == IF HasChar(s, c) THEN SubSeq(s, 1, FirstIndex(s, c) - 1) ELSE s

\* s.split(c, 1)[1] (s contains c)
AfterFirst(s, c) == SubSeq(s, FirstIndex(s, c) + 1, Len(s))

TAB == "\t"
COLON == ":"

aiforge == << "a","i","f","o","r","g","e" >>
python == << "p","y","t","h","o","n" >>
searxng_searxng == << "s","e","a","r","x","n","g","/","s","e","a","r","x","n","g" >>
nginx == << "n","g","i","n","x" >>

\* the keyword list ["aiforge"]
marker_keywords == { aiforge }
\* preserve_images
preserve_images == { python, searxng_searxng, nginx }

\* loop body of _remove_aiforge_built_images_only: the ids one line adds
MarkLine(ln) ==
    IF HasChar(ln, TAB)
    THEN LET repo_tag == BeforeFirst(ln, TAB)
             image_id == AfterFirst(ln, TAB)
             repo == BeforeFirst(repo_tag, COLON)
         IN  IF \E keyword \in marker_keywords : Contains(Lower(repo), keyword)
             THEN IF ~ \E base \in preserve_images : Contains(Lower(repo), base)
                  THEN << image_id >>
                  ELSE << >>
             ELSE << >>
    ELSE << >>

(***************************************************************************)
(* Image listing lines drawn for the targeted removal                      *)
(***************************************************************************)
AIForge == << "A","I","F","o","r","g","e" >>
registry == << "r","e","g",":","5","0","0","0","/" >>
engine == << "-","w","e","b" >>
tag == << "v","1" >>
DigitChars == << "1","2","3","4","5","6","7","8","9" >>

NGINX == << "N","G","I","N","X" >>

Fragments == { aiforge, AIForge, nginx, NGINX, python, searxng_searxng, registry, engine }

RECURSIVE Concat(_)
Concat(ss) == IF ss = << >> THEN << >> ELSE Head(ss) \o Concat(Tail(ss))

\* repository names: one to MaxFrags fragments, concatenated
Repositories == { Concat(fs) : fs \in UNION { [1..k -> Fragments] : k \in 1..MaxFrags } }

\* the id of the k-th listed image
ImageId(k) == << "i","d", DigitChars[k] >>

\* one output line of `docker images --format "{{.Repository}}:{{.Tag}}\t{{.ID}}"`
ImageLine(repo, id) == [ text |-> repo \o << COLON >> \o tag \o << TAB >> \o id,
                         repo |-> repo, id |-> id ]

\* every line the k-th position of the listing may hold
AllLines(k) == { ImageLine(r, ImageId(k)) : r \in Repositories }

\* a few lines, among them one without a tab
FewLines(k) ==
    { ImageLine(aiforge \o engine, ImageId(k)),
      ImageLine(python, ImageId(k)),
      ImageLine(aiforge \o << "-" >> \o nginx, ImageId(k)),
      [ text |-> aiforge \o engine, repo |-> aiforge \o engine, id |-> << >> ] }

(***************************************************************************)
(* searxng/settings.yml as yaml.safe_load returns it                       *)
(*   root:   "null" (empty document) or "map"                              *)
(*   search: "absent", "null" or "map"                                     *)
(*   fkind:  search.formats "absent", "null" or "list"                     *)
(***************************************************************************)
FormatNames == { "html", "json", "csv", "rss", "xml" }
required_formats == << "html", "json", "csv", "rss" >>

SetOf(s) == { s[i] : i \in DOMAIN s }

SettingsFile(e, r, s, k, f) ==
    [ exists |-> e, root |-> r, search |-> s, fkind |-> k, formats |-> f ]

NoFile == SettingsFile(FALSE, "null", "absent", "absent", << >>)
EmptyDocument == SettingsFile(TRUE, "null", "absent", "absent", << >>)
NoSearch == SettingsFile(TRUE, "map", "absent", "absent", << >>)
NullSearch == SettingsFile(TRUE, "map", "null", "absent", << >>)
NoFormats == SettingsFile(TRUE, "map", "map", "absent", << >>)
NullFormats == SettingsFile(TRUE, "map", "map", "null", << >>)
WithFormats(f) == SettingsFile(TRUE, "map", "map", "list", f)

OtherShapes == { NoFile, EmptyDocument, NoSearch, NullSearch, NoFormats, NullFormats }

AllSettings ==
    OtherShapes \cup
    { WithFormats(f) : f \in UNION { [1..k -> FormatNames] : k \in 0..MaxFormats } }

FewSettings ==
    OtherShapes \cup
    { WithFormats(<< >>), WithFormats(required_formats),
      WithFormats(<< "rss", "csv", "json", "html" >>), WithFormats(<< "html" >>) }

\* lines 471-478 raise: `"search" not in None`, `None.get`, `set(None)`
ReadRaises(f) == f.root = "null" \/ f.search = "null" \/ f.fkind = "null"

\* config["search"].get("formats", [])
current_formats(f) == IF f.fkind = "list" THEN f.formats ELSE << >>

\* set(current_formats) != set(required_formats)
FormatsDiffer(f) == SetOf(current_formats(f)) # SetOf(required_formats)

\* _check_and_update_searxng_formats: the returned value and the file it leaves
check_and_update_searxng_formats(yaml, f, w) ==
    IF ~ yaml THEN [ ret |-> FALSE, file |-> f ]
    ELSE IF ~ f.exists THEN [ ret |-> FALSE, file |-> f ]
    ELSE IF ReadRaises(f) THEN [ ret |-> FALSE, file |-> f ]
    ELSE IF FormatsDiffer(f)
         THEN IF w
              THEN [ ret |-> TRUE, file |-> WithFormats(required_formats) ]
              ELSE [ ret |-> FALSE, file |-> f ]
         ELSE [ ret |-> FALSE, file |-> f ]

(***************************************************************************)
(* External commands                                                       *)
(***************************************************************************)
RunOutcomes == { "ok", "fail", "notfound" }
\* `docker images`: some output, no output, or the command cannot be launched
ListOutcomes == { "nonempty", "empty", "notfound" }

Worlds == [ rv : RunOutcomes, info : RunOutcomes, cv : RunOutcomes,
            cf : BOOLEAN, df : BOOLEAN, img : ListOutcomes ]

NoWorld == [ rv |-> "notfound", info |-> "notfound", cv |-> "notfound",
             cf |-> FALSE, df |-> FALSE, img |-> "notfound" ]

NoChecks == [ docker_available |-> FALSE, docker_compose_available |-> FALSE,
              docker_running |-> FALSE, compose_file_exists |-> FALSE,
              dev_compose_file_exists |-> FALSE, aiforge_image_exists |-> FALSE ]

\* the services of _check_service_health
services == << "aiforge-engine", "aiforge-searxng", "aiforge-nginx" >>

ActionChoices == { "start", "stop", "status", "cleanup", "deep-cleanup" }

Cmd(name, files, arg, out) == [ cmd |-> name, files |-> files, arg |-> arg, out |-> out ]

Invoked(name) == \E i \in 1..Len(cmds) : cmds[i].cmd = name
IndexOf(name) == CHOOSE i \in 1..Len(cmds) : cmds[i].cmd = name
OutcomeOf(name) == cmds[IndexOf(name)].out
CountOf(name) == Cardinality({ i \in 1..Len(cmds) : cmds[i].cmd = name })

\* the outcomes a command may have: any, or in a replay the one it had before
Allowed(name, arg, S) ==
    IF \E i \in 1..Len(first.cmds) : first.cmds[i].cmd = name /\ first.cmds[i].arg = arg
    THEN { first.cmds[CHOOSE i \in 1..Len(first.cmds) :
                         first.cmds[i].cmd = name /\ first.cmds[i].arg = arg].out }
    ELSE S

startVars == << dev_mode, world, checks, buildRet >>
searxVars == << yamlAvail, settings, settingsBefore, writeOk, searxRet, searxRuns >>
imgVars == << line, lineRepo, lineId, marked, nScanned, images_to_remove, rmiIdx >>
mainVars == << op, devArg, exitCode >>
replayVars == << run, first >>

Init ==
    /\ pc = "main"
    /\ op = "none"
    /\ devArg = FALSE
    /\ dev_mode = FALSE
    /\ world = NoWorld
    /\ checks = NoChecks
    /\ cmds = << >>
    /\ buildRet = "unset"
    /\ hidx = 1
    /\ yamlAvail = FALSE
    /\ settings = NoFile
    /\ settingsBefore = NoFile
    /\ writeOk = FALSE
    /\ searxRet = FALSE
    /\ searxRuns = 0
    /\ line = << >>
    /\ lineRepo = << >>
    /\ lineId = << >>
    /\ marked = FALSE
    /\ nScanned = 0
    /\ images_to_remove = << >>
    /\ rmiIdx = 1
    /\ ret = "unset"
    /\ exc = "none"
    /\ exitCode = -1
    /\ run = 1
    /\ first = [ ret |-> "unset", cmds |-> << >> ]

(***************************************************************************)
(* main(): dispatch                                                        *)
(***************************************************************************)
Entry(a) ==
    CASE a = "start" -> "env_version"
      [] a = "stop" -> "stop"
      [] a = "status" -> "status_ps"
      [] a = "cleanup" -> "cleanup_down"
      [] a = "deep-cleanup" -> "deep_down"

\* lines 541-555: parse the arguments and call the action's method
Main(choices) ==
    /\ pc = "main"
    /\ \E a \in choices, d \in BOOLEAN :
          /\ op' = a
          /\ devArg' = d
          /\ dev_mode' = d
          /\ pc' = Entry(a)
          /\ \E w \in (IF a = "start" THEN Worlds ELSE { world }) : world' = w
    /\ UNCHANGED << checks, cmds, buildRet, hidx, searxVars, imgVars, ret, exc,
                    exitCode, replayVars >>

\* a Ctrl-C while the action runs: no handler but main's catches it
Interrupt ==
    /\ pc \notin { "main", "main_ret", "main_exc", "exit" }
    /\ exc' = "KeyboardInterrupt"
    /\ pc' = "main_exc"
    /\ UNCHANGED << startVars, cmds, hidx, searxVars, imgVars, ret, mainVars, replayVars >>

(***************************************************************************)
(* check_docker_environment                                                *)
(***************************************************************************)
\* mutant: a missing runtime does not end the pass
VersionAlwaysContinues(out) == TRUE

\* lines 69-77: the pass goes on only if `docker --version` exits with 0
VersionContinues(out) == out = "ok"

\* lines 82-90: the pass goes on only if `docker info` exits with 0
InfoContinues(out) == out = "ok"

\* mutant: a missing orchestrator ends the pass
ComposeStops(out) == out = "ok"

\* lines 95-101: the pass goes on whatever `docker-compose --version` gave
ComposeContinues(out) == TRUE

CheckDockerVersion ==
    /\ pc = "env_version"
    /\ cmds' = Append(cmds, Cmd("docker --version", {}, << >>, world.rv))
    /\ checks' = [ NoChecks EXCEPT !.docker_available = (world.rv = "ok") ]
    /\ pc' = IF VersionContinues(world.rv) THEN "env_info" ELSE "start_pre"
    /\ UNCHANGED << dev_mode, world, buildRet, hidx, searxVars, imgVars, ret, exc,
                    mainVars, replayVars >>

CheckDockerInfo ==
    /\ pc = "env_info"
    /\ cmds' = Append(cmds, Cmd("docker info", {}, << >>, world.info))
    /\ checks' = [ checks EXCEPT !.docker_running = (world.info = "ok") ]
    /\ pc' = IF InfoContinues(world.info) THEN "env_compose" ELSE "start_pre"
    /\ UNCHANGED << dev_mode, world, buildRet, hidx, searxVars, imgVars, ret, exc,
                    mainVars, replayVars >>

CheckComposeVersion ==
    /\ pc = "env_compose"
    /\ cmds' = Append(cmds, Cmd("docker-compose --version", {}, << >>, world.cv))
    /\ checks' = [ checks EXCEPT !.docker_compose_available = (world.cv = "ok") ]
    /\ pc' = IF ComposeContinues(world.cv) THEN "env_files" ELSE "start_pre"
    /\ UNCHANGED << dev_mode, world, buildRet, hidx, searxVars, imgVars, ret, exc,
                    mainVars, replayVars >>

\* lines 104-138: the two files, the image listing, return checks
CheckFilesAndImage ==
    /\ pc = "env_files"
    /\ cmds' = Append(cmds, Cmd("docker images (detect)", {}, << >>, world.img))
    /\ checks' = [ checks EXCEPT !.compose_file_exists = world.cf,
                                 !.dev_compose_file_exists = world.df,
                                 !.aiforge_image_exists = (world.img = "nonempty") ]
    /\ pc' = "start_pre"
    /\ UNCHANGED << dev_mode, world, buildRet, hidx, searxVars, imgVars, ret, exc,
                    mainVars, replayVars >>

(***************************************************************************)
(* start_services and build_images_if_needed                               *)
(***************************************************************************)
\* mutant: the compose file is not required
PreconditionsButFile(c) ==
    c.docker_available /\ c.docker_running /\ c.docker_compose_available

\* lines 221-237
PreconditionsMet(c) ==
    /\ c.docker_available
    /\ c.docker_running
    /\ c.docker_compose_available
    /\ c.compose_file_exists

\* mutant: development mode is kept as requested
KeepDevMode(d, c) == d

\* lines 239-242
EffectiveDevMode(d, c) == d /\ c.dev_compose_file_exists

StartPreconditions ==
    /\ pc = "start_pre"
    /\ IF PreconditionsMet(checks)
       THEN /\ dev_mode' = EffectiveDevMode(dev_mode, checks)
            /\ pc' = "build_list"
            /\ ret' = ret
       ELSE /\ dev_mode' = dev_mode
            /\ pc' = "main_ret"
            /\ ret' = "False"
    /\ UNCHANGED << world, checks, cmds, buildRet, hidx, searxVars, imgVars, exc,
                    mainVars, replayVars >>

\* lines 159-161
SkipBuild(out) == out = "nonempty"

\* lines 167-171
BuildFiles(d) == IF d /\ world.df THEN { "compose", "dev" } ELSE { "compose" }

\* lines 201-210
BuildResult(out) == IF out = "ok" THEN "True" ELSE "False"

\* lines 146-161, 208-210 and 247-248: the listing inside build_images_if_needed
BuildList ==
    /\ pc = "build_list"
    /\ \E o \in Allowed("docker images (build)", << >>, ListOutcomes) :
          /\ cmds' = Append(cmds, Cmd("docker images (build)", {}, << >>, o))
          /\ IF o = "notfound"
             THEN buildRet' = "False" /\ ret' = "False" /\ pc' = "main_ret"
             ELSE IF SkipBuild(o)
                  THEN buildRet' = "True" /\ ret' = ret /\ pc' = "start_down"
                  ELSE buildRet' = buildRet /\ ret' = ret /\ pc' = "build_run"
    /\ UNCHANGED << dev_mode, world, checks, hidx, searxVars, imgVars, exc,
                    mainVars, replayVars >>

\* lines 163-210 and 247-248: the build command
BuildRun ==
    /\ pc = "build_run"
    /\ \E o \in Allowed("docker-compose build", << >>, RunOutcomes) :
          /\ cmds' = Append(cmds, Cmd("docker-compose build", BuildFiles(dev_mode), << >>, o))
          /\ buildRet' = BuildResult(o)
          /\ IF BuildResult(o) = "True"
             THEN ret' = ret /\ pc' = "start_down"
             ELSE ret' = "False" /\ pc' = "main_ret"
    /\ UNCHANGED << dev_mode, world, checks, hidx, searxVars, imgVars, exc,
                    mainVars, replayVars >>

\* lines 255-258 and 298-300: docker-compose down, exit code ignored
StartDown ==
    /\ pc = "start_down"
    /\ \E o \in Allowed("docker-compose down", << >>, RunOutcomes) :
          /\ cmds' = Append(cmds, Cmd("docker-compose down", {}, << >>, o))
          /\ IF o = "notfound"
             THEN ret' = "False" /\ pc' = "main_ret"
             ELSE ret' = ret /\ pc' = "start_up"
    /\ UNCHANGED << startVars, hidx, searxVars, imgVars, exc, mainVars, replayVars >>

\* lines 261-266
UpFiles(d) == IF d THEN { "compose", "dev" } ELSE { "compose" }

\* lines 260-300: docker-compose up -d
StartUp ==
    /\ pc = "start_up"
    /\ \E o \in Allowed("docker-compose up", << >>, RunOutcomes) :
          /\ cmds' = Append(cmds, Cmd("docker-compose up", UpFiles(dev_mode), << >>, o))
          /\ IF o = "ok"
             THEN ret' = ret /\ pc' = "start_sleep"
             ELSE ret' = "False" /\ pc' = "main_ret"
    /\ UNCHANGED << startVars, hidx, searxVars, imgVars, exc, mainVars, replayVars >>

\* lines 278-282: print the URLs, time.sleep(10)
StartSleep ==
    /\ pc = "start_sleep"
    /\ pc' = "health"
    /\ hidx' = 1
    /\ UNCHANGED << startVars, cmds, searxVars, imgVars, ret, exc, mainVars, replayVars >>

(***************************************************************************)
(* _check_service_health                                                   *)
(***************************************************************************)
\* where the caller goes on after the health check
AfterHealth(a) == IF a = "start" THEN "start_searx" ELSE "main_ret"

\* lines 434-447: one service; "ok" is a status containing "Up"
HealthCheck ==
    /\ pc = "health"
    /\ \E o \in Allowed("docker ps", << services[hidx] >>, RunOutcomes) :
          cmds' = Append(cmds, Cmd("docker ps", {}, << services[hidx] >>, o))
    /\ IF hidx < Len(services)
       THEN hidx' = hidx + 1 /\ pc' = pc /\ ret' = ret
       ELSE /\ hidx' = hidx
            /\ pc' = AfterHealth(op)
            /\ ret' = IF op = "status" THEN "None" ELSE ret
    /\ UNCHANGED << startVars, searxVars, imgVars, exc, mainVars, replayVars >>

(***************************************************************************)
(* _check_and_update_searxng_formats                                       *)
(***************************************************************************)
Reconcile(y, f, w) ==
    LET r == check_and_update_searxng_formats(y, f, w)
    IN  /\ yamlAvail' = y
        /\ settingsBefore' = f
        /\ writeOk' = w
        /\ settings' = r.file
        /\ searxRet' = r.ret
        /\ searxRuns' = searxRuns + 1

\* mutant: start reports what the reconciliation returned
StartReturnsSearx(r) == IF r THEN "True" ELSE "False"

\* line 293: start returns True whatever the steps after `up` gave
StartReturn(r) == "True"

\* lines 288-293: reconcile the settings file (as found, or as the first call
\* left it), then return
StartSearx ==
    /\ pc = "start_searx"
    /\ \E y \in (IF run = 1 THEN BOOLEAN ELSE { yamlAvail }),
          f \in (IF run = 1 THEN FewSettings ELSE { settings }),
          w \in BOOLEAN :
          /\ Reconcile(y, f, w)
          /\ ret' = StartReturn(check_and_update_searxng_formats(y, f, w).ret)
    /\ pc' = "main_ret"
    /\ UNCHANGED << startVars, cmds, hidx, imgVars, exc, mainVars, replayVars >>

(***************************************************************************)
(* stop_services, show_status, cleanup                                     *)
(***************************************************************************)
\* mutant: the exit code of the teardown is not looked at (no check=True)
StopIgnoresExit(out) == "True"

\* lines 310-316: check=True turns a non-zero exit into CalledProcessError
StopResult(out) == IF out = "ok" THEN "True" ELSE "False"

\* lines 304-316; FileNotFoundError is not caught here
StopServices ==
    /\ pc = "stop"
    /\ \E e \in BOOLEAN, o \in RunOutcomes :
          /\ world' = [ world EXCEPT !.cf = e ]
          /\ IF ~ e
             THEN cmds' = cmds /\ ret' = "False" /\ exc' = exc /\ pc' = "main_ret"
             ELSE /\ cmds' = Append(cmds, Cmd("docker-compose down", { "compose" }, << >>, o))
                  /\ IF o = "notfound"
                     THEN ret' = ret /\ exc' = "FileNotFoundError" /\ pc' = "main_exc"
                     ELSE ret' = StopResult(o) /\ exc' = exc /\ pc' = "main_ret"
    /\ UNCHANGED << dev_mode, checks, buildRet, hidx, searxVars, imgVars, mainVars,
                    replayVars >>

\* lines 323-330: only CalledProcessError is caught
ShowStatus ==
    /\ pc = "status_ps"
    /\ \E o \in RunOutcomes :
          /\ cmds' = Append(cmds, Cmd("docker-compose ps", {}, << >>, o))
          /\ CASE o = "ok" -> ret' = ret /\ exc' = exc /\ pc' = "health"
               [] o = "fail" -> ret' = "None" /\ exc' = exc /\ pc' = "main_ret"
               [] o = "notfound" ->
                     ret' = ret /\ exc' = "FileNotFoundError" /\ pc' = "main_exc"
    /\ hidx' = 1
    /\ UNCHANGED << startVars, searxVars, imgVars, mainVars, replayVars >>

\* lines 336-338 and 355-357
CleanupDown ==
    /\ pc = "cleanup_down"
    /\ \E o \in RunOutcomes :
          /\ cmds' = Append(cmds, Cmd("docker-compose down -v", {}, << >>, o))
          /\ IF o = "notfound"
             THEN ret' = "False" /\ pc' = "main_ret"
             ELSE ret' = ret /\ pc' = "cleanup_prune"
    /\ UNCHANGED << startVars, hidx, searxVars, imgVars, exc, mainVars, replayVars >>

\* lines 341-357
CleanupPrune ==
    /\ pc = "cleanup_prune"
    /\ \E o \in RunOutcomes :
          /\ cmds' = Append(cmds, Cmd("docker image prune (label)", {}, << >>, o))
          /\ ret' = IF o = "notfound" THEN "False" ELSE "True"
    /\ pc' = "main_ret"
    /\ UNCHANGED << startVars, hidx, searxVars, imgVars, exc, mainVars, replayVars >>

(***************************************************************************)
(* deep_cleanup and _remove_aiforge_built_images_only                      *)
(***************************************************************************)
\* mutant: a non-zero exit aborts deep cleanup as well
DeepAbortsUnlessOk(out) == out # "ok"

\* lines 364-389: only an exception leaves the try block
DeepAborts(out) == out = "notfound"

\* one of deep_cleanup's own commands: go on to `next` unless it raised
DeepStep(here, name, next) ==
    /\ pc = here
    /\ \E o \in RunOutcomes :
          /\ cmds' = Append(cmds, Cmd(name, {}, << >>, o))
          /\ IF DeepAborts(o)
             THEN ret' = "False" /\ pc' = "main_ret"
             ELSE IF next = "main_ret"
                  THEN ret' = "True" /\ pc' = "main_ret"
                  ELSE ret' = ret /\ pc' = next
    /\ UNCHANGED << startVars, hidx, searxVars, imgVars, exc, mainVars, replayVars >>

\* lines 367-369
DeepDown == DeepStep("deep_down", "docker-compose down -v --remove-orphans", "rm_list")
\* line 377
DeepBuilderPrune == DeepStep("deep_builder", "docker builder prune", "deep_image")
\* line 381
DeepImagePrune == DeepStep("deep_image", "docker image prune", "deep_volume")
\* lines 382-385
DeepVolumePrune == DeepStep("deep_volume", "docker volume prune", "main_ret")

\* lines 395-405 and 426-427: list the images; no output or an exception ends the pass
RemoveList ==
    /\ pc = "rm_list"
    /\ \E o \in ListOutcomes :
          /\ cmds' = Append(cmds, Cmd("docker images (all)", {}, << >>, o))
          /\ pc' = IF o = "nonempty" THEN "rm_scan" ELSE "deep_builder"
    /\ nScanned' = 0
    /\ images_to_remove' = << >>
    /\ rmiIdx' = 1
    /\ UNCHANGED << startVars, hidx, searxVars, line, lineRepo, lineId, marked, ret, exc,
                    mainVars, replayVars >>

\* lines 408-415: one turn of the loop over the lines
ScanLine(l) ==
    /\ pc = "rm_scan"
    /\ nScanned < MaxLines
    /\ line' = l.text
    /\ lineRepo' = l.repo
    /\ lineId' = l.id
    /\ marked' = (MarkLine(l.text) # << >>)
    /\ images_to_remove' = images_to_remove \o MarkLine(l.text)
    /\ nScanned' = nScanned + 1
    /\ UNCHANGED << pc, startVars, cmds, hidx, searxVars, rmiIdx, ret, exc, mainVars,
                    replayVars >>

ScanFew == \E l \in FewLines(nScanned + 1) : ScanLine(l)

ScanAny == \E l \in AllLines(nScanned + 1) : ScanLine(l)

\* the loop over the lines ends (the listing has at least one line)
EndScan ==
    /\ pc = "rm_scan"
    /\ nScanned >= 1
    /\ pc' = IF images_to_remove = << >> THEN "deep_builder" ELSE "rm_rmi"
    /\ rmiIdx' = 1
    /\ UNCHANGED << startVars, cmds, hidx, searxVars, line, lineRepo, lineId, marked,
                    nScanned, images_to_remove, ret, exc, mainVars, replayVars >>

\* lines 418-427: remove one image; an exception ends the pass
RemoveImage ==
    /\ pc = "rm_rmi"
    /\ \E o \in RunOutcomes :
          /\ cmds' = Append(cmds, Cmd("docker rmi -f", {}, images_to_remove[rmiIdx], o))
          /\ pc' = IF o = "notfound" \/ rmiIdx = Len(images_to_remove)
                   THEN "deep_builder" ELSE pc
    /\ rmiIdx' = rmiIdx + 1
    /\ UNCHANGED << startVars, hidx, searxVars, line, lineRepo, lineId, marked,
                    nScanned, images_to_remove, ret, exc, mainVars, replayVars >>

(***************************************************************************)
(* main(): exit                                                            *)
(***************************************************************************)
\* mutant: an interrupt is not caught and the interpreter exits with 130
ExitCodeInterrupt(a, r, e) ==
    IF e = "KeyboardInterrupt" THEN 130
    ELSE IF e # "none" THEN 1
    ELSE IF a = "status" THEN 0
    ELSE IF r = "True" THEN 0 ELSE 1

\* lines 544-566: success is the method's value (True for status), False on
\* KeyboardInterrupt or any Exception; exit 0 if success else 1
ExitCode(a, r, e) ==
    IF e # "none" THEN 1
    ELSE IF a = "status" THEN 0
    ELSE IF r = "True" THEN 0 ELSE 1

MainExit ==
    /\ pc \in { "main_ret", "main_exc" }
    /\ exitCode' = ExitCode(op, ret, exc)
    /\ pc' = "exit"
    /\ UNCHANGED << op, devArg, startVars, cmds, hidx, searxVars, imgVars, ret, exc,
                    replayVars >>

Next ==
    \/ Main(ActionChoices)
    \/ Interrupt
    \/ CheckDockerVersion
    \/ CheckDockerInfo
    \/ CheckComposeVersion
    \/ CheckFilesAndImage
    \/ StartPreconditions
    \/ BuildList
    \/ BuildRun
    \/ StartDown
    \/ StartUp
    \/ StartSleep
    \/ HealthCheck
    \/ StartSearx
    \/ StopServices
    \/ ShowStatus
    \/ CleanupDown
    \/ CleanupPrune
    \/ DeepDown
    \/ RemoveList
    \/ ScanFew
    \/ EndScan
    \/ RemoveImage
    \/ DeepBuilderPrune
    \/ DeepImagePrune
    \/ DeepVolumePrune
    \/ MainExit

Spec == Init /\ [][Next]_vars

(***************************************************************************)
(* start_services called twice: as requested, then in production mode      *)
(* against the same outcomes of the external commands                      *)
(***************************************************************************)
Recall ==
    /\ pc = "main_ret"
    /\ op = "start"
    /\ run = 1
    /\ first' = [ ret |-> ret, cmds |-> cmds ]
    /\ run' = 2
    /\ dev_mode' = FALSE
    /\ checks' = NoChecks
    /\ cmds' = << >>
    /\ buildRet' = "unset"
    /\ hidx' = 1
    /\ ret' = "unset"
    /\ pc' = "env_version"
    /\ UNCHANGED << world, searxVars, imgVars, exc, mainVars >>

NextReplay ==
    \/ Main({ "start" })
    \/ Interrupt
    \/ CheckDockerVersion
    \/ CheckDockerInfo
    \/ CheckComposeVersion
    \/ CheckFilesAndImage
    \/ StartPreconditions
    \/ BuildList
    \/ BuildRun
    \/ StartDown
    \/ StartUp
    \/ StartSleep
    \/ HealthCheck
    \/ StartSearx
    \/ Recall

SpecReplay == Init /\ [][NextReplay]_vars

(***************************************************************************)
(* _remove_aiforge_built_images_only on its own, over every listing        *)
(***************************************************************************)
InitImages ==
    /\ pc = "rm_list"
    /\ op = "deep-cleanup"
    /\ devArg = FALSE
    /\ dev_mode = FALSE
    /\ world = NoWorld
    /\ checks = NoChecks
    /\ cmds = << >>
    /\ buildRet = "unset"
    /\ hidx = 1
    /\ yamlAvail = FALSE
    /\ settings = NoFile
    /\ settingsBefore = NoFile
    /\ writeOk = FALSE
    /\ searxRet = FALSE
    /\ searxRuns = 0
    /\ line = << >>
    /\ lineRepo = << >>
    /\ lineId = << >>
    /\ marked = FALSE
    /\ nScanned = 0
    /\ images_to_remove = << >>
    /\ rmiIdx = 1
    /\ ret = "unset"
    /\ exc = "none"
    /\ exitCode = -1
    /\ run = 1
    /\ first = [ ret |-> "unset", cmds |-> << >> ]

NextImages ==
    \/ RemoveList
    \/ ScanAny
    \/ EndScan
    \/ RemoveImage

SpecImages == InitImages /\ [][NextImages]_vars

(***************************************************************************)
(* _check_and_update_searxng_formats on its own, run repeatedly on a file  *)
(***************************************************************************)
InitSearx ==
    /\ pc = "searx"
    /\ op = "start"
    /\ devArg = FALSE
    /\ dev_mode = FALSE
    /\ world = NoWorld
    /\ checks = NoChecks
    /\ cmds = << >>
    /\ buildRet = "unset"
    /\ hidx = 1
    /\ yamlAvail \in BOOLEAN
    /\ settings \in AllSettings
    /\ settingsBefore = NoFile
    /\ writeOk = FALSE
    /\ searxRet = FALSE
    /\ searxRuns = 0
    /\ line = << >>
    /\ lineRepo = << >>
    /\ lineId = << >>
    /\ marked = FALSE
    /\ nScanned = 0
    /\ images_to_remove = << >>
    /\ rmiIdx = 1
    /\ ret = "unset"
    /\ exc = "none"
    /\ exitCode = -1
    /\ run = 1
    /\ first = [ ret |-> "unset", cmds |-> << >> ]

SearxCall ==
    /\ pc = "searx"
    /\ searxRuns < MaxSearxRuns
    /\ \E w \in BOOLEAN : Reconcile(yamlAvail, settings, w)
    /\ UNCHANGED << pc, startVars, cmds, hidx, imgVars, ret, exc, mainVars, replayVars >>

NextSearx == SearxCall

SpecSearx == InitSearx /\ [][NextSearx]_vars

(***************************************************************************)
(* Properties                                                              *)
(***************************************************************************)
\* the four mandatory preconditions, as the environment has them
WorldReady == world.rv = "ok" /\ world.info = "ok" /\ world.cv = "ok" /\ world.cf

\* the four mandatory preconditions, as the detection reported them
ReportedReady ==
    /\ checks.docker_available
    /\ checks.docker_running
    /\ checks.docker_compose_available
    /\ checks.compose_file_exists

StartReturned == op = "start" /\ pc = "main_ret"

\* C1: a start whose detection reports the four preconditions and whose image
\* listing is non-empty runs no build, runs `down` before `up` (and `up` whenever
\* `down` could be launched), and returns True exactly if `up` exited with 0,
\* whatever the sleep, the health check and the reconciliation gave.
C1_StartWithImage ==
    ( /\ StartReturned
      /\ ReportedReady
      /\ Invoked("docker images (build)")
      /\ OutcomeOf("docker images (build)") = "nonempty" )
    => /\ ~ Invoked("docker-compose build")
       /\ Invoked("docker-compose down")
       /\ Invoked("docker-compose up")
             => IndexOf("docker-compose down") < IndexOf("docker-compose up")
       /\ OutcomeOf("docker-compose down") # "notfound" => Invoked("docker-compose up")
       /\ ret \in { "True", "False" }
       /\ ret = "True" <=> ( /\ Invoked("docker-compose up")
                             /\ OutcomeOf("docker-compose up") = "ok" )

\* a start over an existing image that returns True although a service is not
\* up and the reconciliation rewrote nothing
C1_Witness ==
    /\ StartReturned
    /\ ReportedReady
    /\ Invoked("docker images (build)")
    /\ OutcomeOf("docker images (build)") = "nonempty"
    /\ OutcomeOf("docker-compose down") = "fail"
    /\ ret = "True"
    /\ \E i \in 1..Len(cmds) : cmds[i].cmd = "docker ps" /\ cmds[i].out = "fail"
    /\ ~ searxRet
    /\ settingsBefore = EmptyDocument

DetectionReturned == op = "start" /\ pc = "start_pre"

\* C2 (as claimed): whenever the runtime is available, every entry of the mapping
\* equals the outcome of its own check.
C2_EachEntryOwnCheck ==
    ( DetectionReturned /\ world.rv = "ok" )
    => /\ checks.docker_available = (world.rv = "ok")
       /\ checks.docker_running = (world.info = "ok")
       /\ checks.docker_compose_available = (world.cv = "ok")
       /\ checks.compose_file_exists = world.cf
       /\ checks.dev_compose_file_exists = world.df
       /\ checks.aiforge_image_exists = (world.img = "nonempty")

\* C2 (amended): the runtime and daemon entries equal their own checks (the
\* daemon's only if the runtime is available); if both succeeded every later
\* entry equals its own check, a failed orchestrator, file or image check
\* touching no other entry; if either failed every later entry is false.
C2_EntriesAfterRuntimeAndDaemon ==
    DetectionReturned
    => /\ checks.docker_available = (world.rv = "ok")
       /\ checks.docker_running = (world.rv = "ok" /\ world.info = "ok")
       /\ IF world.rv = "ok" /\ world.info = "ok"
          THEN /\ checks.docker_compose_available = (world.cv = "ok")
               /\ checks.compose_file_exists = world.cf
               /\ checks.dev_compose_file_exists = world.df
               /\ checks.aiforge_image_exists = (world.img = "nonempty")
          ELSE /\ ~ checks.docker_compose_available
               /\ ~ checks.compose_file_exists
               /\ ~ checks.dev_compose_file_exists
               /\ ~ checks.aiforge_image_exists

\* the orchestrator check failed and the later entries still reflect their checks
C2_Witness ==
    /\ DetectionReturned
    /\ world.rv = "ok" /\ world.info = "ok" /\ world.cv = "notfound"
    /\ world.cf /\ world.df /\ world.img = "nonempty"
    /\ ~ checks.docker_compose_available
    /\ checks.compose_file_exists
    /\ checks.dev_compose_file_exists
    /\ checks.aiforge_image_exists

\* C3: once the runtime version check has failed (non-zero exit or no such
\* executable), the daemon and orchestrator checks are never invoked in that
\* pass and every entry of the mapping is false.
C3_RuntimeShortCircuit ==
    ( /\ op = "start"
      /\ Invoked("docker --version")
      /\ OutcomeOf("docker --version") # "ok" )
    => /\ ~ Invoked("docker info")
       /\ ~ Invoked("docker-compose --version")
       /\ ~ Invoked("docker images (detect)")
       /\ checks = NoChecks

\* the pass returned after a missing runtime although the files and image exist
C3_Witness ==
    /\ DetectionReturned
    /\ OutcomeOf("docker --version") = "notfound"
    /\ world.info = "ok" /\ world.cv = "ok" /\ world.cf /\ world.img = "nonempty"
    /\ Len(cmds) = 1

\* `sub in s.lower()` for a lower-case sub, stated on the characters
ContainsIgnoreCase(s, sub) ==
    \E i \in 0..(Len(s) - Len(sub)) :
        \A k \in 1..Len(sub) : LowerChar(s[i + k]) = sub[k]

\* a name with the marker and none of the preserved fragments
ShouldRemove(name) ==
    /\ ContainsIgnoreCase(name, aiforge)
    /\ \A base \in preserve_images : ~ ContainsIgnoreCase(name, base)

Scanned == pc \in { "rm_scan", "rm_rmi", "deep_builder" } /\ nScanned >= 1

\* C4: the id of a listed line is marked exactly if its repository
\* name contains the marker and none of the preserved fragments, ignoring case.
C4_MarkedIffRepository ==
    Scanned => (marked <=> ShouldRemove(lineRepo))

\* C5: with YAML available and the file present, the file is
\* rewritten exactly if the set of search.formats (absent: empty) differs from
\* the required set, the returned value says whether it was, and a rewrite
\* leaves the required list.
C5_RewriteIffSetsDiffer ==
    ( /\ searxRuns >= 1
      /\ yamlAvail
      /\ settingsBefore.exists
      /\ writeOk )
    => /\ (settings # settingsBefore)
             <=> (SetOf(settingsBefore.formats) # SetOf(required_formats))
       /\ searxRet <=> (settings # settingsBefore)
       /\ searxRet => settings = WithFormats(required_formats)

\* C6: a start in development mode with the four preconditions met and the
\* development file absent goes on past the precondition checks, names only the
\* production file in build and up, and gives the value and the commands a
\* production-mode start gives against the same outcomes.
C6_DevFallback ==
    ( /\ StartReturned
      /\ run = 2
      /\ devArg
      /\ WorldReady
      /\ ~ world.df )
    => /\ first.ret = ret
       /\ first.cmds = cmds
       /\ \E i \in 1..Len(first.cmds) : first.cmds[i].cmd = "docker images (build)"
       /\ \A i \in 1..Len(first.cmds) :
             /\ "dev" \notin first.cmds[i].files
             /\ first.cmds[i].cmd \in { "docker-compose build", "docker-compose up" }
                   => first.cmds[i].files = { "compose" }

\* both calls built and brought the stack up
C6_Witness ==
    /\ StartReturned
    /\ run = 2
    /\ devArg
    /\ WorldReady
    /\ ~ world.df
    /\ first.ret = "True"
    /\ ret = "True"
    /\ Invoked("docker-compose build")
    /\ Invoked("docker-compose up")

DeepStepNames ==
    << "docker-compose down -v --remove-orphans", "docker images (all)",
       "docker builder prune", "docker image prune", "docker volume prune" >>

DeepOwnCommands ==
    { "docker-compose down -v --remove-orphans", "docker builder prune",
      "docker image prune", "docker volume prune" }

DeepReturned == op = "deep-cleanup" /\ pc = "main_ret"

IsStep(c) == c.cmd # "docker rmi -f"

\* C7 (as claimed): deep cleanup always attempts all five steps and is never
\* aborted by the failure of a command.
C7_AllStepsAlways ==
    DeepReturned
    => /\ \A k \in 1..Len(DeepStepNames) : Invoked(DeepStepNames[k])
       /\ ret = "True"

\* C7 (amended): the steps are attempted in order; a non-zero exit never stops
\* deep cleanup, nor does any failure inside the targeted removal; but when the
\* teardown or a prune command cannot be launched, deep cleanup stops there and
\* returns False.
C7_StepsUnlessNotLaunched ==
    DeepReturned
    => LET steps == SelectSeq(cmds, IsStep)
           raised == \E i \in 1..Len(cmds) :
                        cmds[i].cmd \in DeepOwnCommands /\ cmds[i].out = "notfound"
       IN  /\ Len(steps) <= Len(DeepStepNames)
           /\ \A k \in 1..Len(steps) : steps[k].cmd = DeepStepNames[k]
           /\ \A i \in 1..Len(cmds) :
                 ~ IsStep(cmds[i])
                    => /\ IndexOf("docker images (all)") < i
                       /\ Invoked("docker builder prune")
                             => i < IndexOf("docker builder prune")
           /\ ~ raised => Len(steps) = Len(DeepStepNames) /\ ret = "True"
           /\ raised => /\ ret = "False"
                        /\ cmds[Len(cmds)].cmd \in DeepOwnCommands
                        /\ cmds[Len(cmds)].out = "notfound"

\* all steps done and True returned although the teardown and a prune exited
\* non-zero and an image removal could not be launched
C7_Witness ==
    /\ DeepReturned
    /\ ret = "True"
    /\ OutcomeOf("docker-compose down -v --remove-orphans") = "fail"
    /\ OutcomeOf("docker image prune") = "fail"
    /\ \E i \in 1..Len(cmds) : cmds[i].cmd = "docker rmi -f" /\ cmds[i].out = "notfound"
    /\ Len(images_to_remove) = 2
    /\ CountOf("docker rmi -f") = 1

\* C8: stop with the production file absent returns False without invoking the
\* teardown; with the file present the teardown is invoked exactly once and the
\* returned value is True exactly if it exited with 0.
C8_Stop ==
    ( op = "stop" /\ pc \in { "main_ret", "main_exc", "exit" } /\ exc # "KeyboardInterrupt" )
    => IF world.cf
       THEN /\ Len(cmds) = 1
            /\ cmds[1].cmd = "docker-compose down"
            /\ cmds[1].files = { "compose" }
            /\ exc = "none" => /\ ret \in { "True", "False" }
                               /\ ret = "True" <=> cmds[1].out = "ok"
       ELSE /\ cmds = << >>
            /\ exc = "none"
            /\ ret = "False"

\* the teardown exited non-zero and stop returned False
C8_Witness ==
    /\ op = "stop"
    /\ pc = "main_ret"
    /\ world.cf
    /\ Len(cmds) = 1
    /\ cmds[1].out = "fail"
    /\ ret = "False"

Exited == pc = "exit"

\* C9 (as claimed): the exit code is 0 exactly if the action reported success,
\* status reporting success when it obtained the status.
C9_ExitIffReported ==
    Exited
    => /\ exitCode \in { 0, 1 }
       /\ exitCode = 0
             <=> /\ exc = "none"
                 /\ IF op = "status"
                    THEN OutcomeOf("docker-compose ps") = "ok"
                    ELSE ret = "True"

\* C9 (amended): the exit code is 0 or 1; for start, stop, cleanup and
\* deep-cleanup it is 0 exactly if the method returned True; for status it is 0
\* whenever show_status returned, also when the status command exited non-zero;
\* it is 1 after an interrupt or an exception that reached main.
C9_ExitCode ==
    Exited
    => /\ exitCode \in { 0, 1 }
       /\ exc # "none" => exitCode = 1
       /\ exc = "none"
             => IF op = "status"
                THEN exitCode = 0 /\ OutcomeOf("docker-compose ps") # "notfound"
                ELSE /\ ret \in { "True", "False" }
                     /\ exitCode = 0 <=> ret = "True"

\* status exits with 0 although the status command exited non-zero
C9_Witness ==
    /\ Exited
    /\ op = "status"
    /\ exc = "none"
    /\ OutcomeOf("docker-compose ps") = "fail"
    /\ exitCode = 0

\* C10: in a start, build, down and up are invoked only if the detection
\* reported the four preconditions; down and up only after
\* build_images_if_needed returned True; a failed build makes start return
\* False without down or up.
C10_GuardedCommands ==
    op = "start"
    => /\ ( \/ Invoked("docker images (build)")
            \/ Invoked("docker-compose build")
            \/ Invoked("docker-compose down")
            \/ Invoked("docker-compose up") )
          => ReportedReady
       /\ ( Invoked("docker-compose down") \/ Invoked("docker-compose up") )
          => buildRet = "True"
       /\ buildRet = "False"
          => /\ pc \in { "main_ret", "exit" }
             /\ ret = "False"
             /\ ~ Invoked("docker-compose down")
             /\ ~ Invoked("docker-compose up")

\* the build exited non-zero and start returned False
C10_Witness ==
    /\ StartReturned
    /\ Invoked("docker-compose build")
    /\ OutcomeOf("docker-compose build") = "fail"
    /\ buildRet = "False"
    /\ ret = "False"
    /\ Len(cmds) = 6

====
